---- MODULE Spec2Model ----
(***************************************************************************)
(* Model of the pyarr request-construction layer: LidarrAPI                *)
(* (pyarr/lidarr.py) and RadarrAPI (pyarr/radarr.py).                      *)
(*                                                                         *)
(* One client of each class exists.  A method invocation is an action (or, *)
(* for the add operations, a chain of actions, one per HTTP request).  The *)
(* requests of the invocation in progress (or of the last one) are logged  *)
(* in reqs, the responses the remote service gave in resps.  The remote    *)
(* service is the environment: every response is chosen nondeterministically*)
(* among a transport failure and the successful JSON bodies.               *)
(***************************************************************************)
EXTENDS Integers, Sequences, FiniteSets, TLC

VARIABLES
    config,     \* per client: host_url, api_key, ver_uri (set by __init__)
    call,       \* the invocation in progress or the last one: api, method, args
    pc,         \* position inside the invocation: "idle" before it, "done" once
                \* it has returned or raised
    locals,     \* local variables of the add operations
    reqs,       \* HTTP requests issued by the invocation, in order
    resps,      \* responses received, resps[i] answers reqs[i]
    warns,      \* deprecation notices: Len(reqs) at the moment each was emitted
    outcome,    \* "none", "pending", "returned" or the exception that ended the call
    result      \* the value returned to the caller (None unless returned)

vars == <<config, call, pc, locals, reqs, resps, warns, outcome, result>>

----------------------------------------------------------------------------
(* Bounds *)

MaxId == 1          \* integer ids and page numbers range over 0..MaxId
MaxLen == 2         \* longest list a caller passes

----------------------------------------------------------------------------
(* Python values.  Every value carries its type, so that None, 0, "" and   *)
(* [] stay distinct and isinstance / truthiness / "is None" can be         *)
(* evaluated as Python evaluates them.                                     *)

None == [t |-> "None"]
IntV(i) == [t |-> "int", i |-> i]
StrV(s) == [t |-> "str", s |-> s]
BoolV(b) == [t |-> "bool", b |-> b]
ListV(l) == [t |-> "list", l |-> l]
DictV(d) == [t |-> "dict", d |-> d]
PairsV(p) == [t |-> "pairs", p |-> p]

EmptyDict == [k \in {} |-> None]

\* d[k] = v
Put(d, k, v) == [x \in DOMAIN d \cup {k} |-> IF x = k THEN v ELSE d[x]]

\* d |= e
Merge(d, e) == [x \in DOMAIN d \cup DOMAIN e |-> IF x \in DOMAIN e THEN e[x] ELSE d[x]]

\* bool(v)
Truthy(v) ==
    CASE v.t = "None" -> FALSE
      [] v.t = "int"  -> v.i # 0
      [] v.t = "str"  -> v.s # ""
      [] v.t = "bool" -> v.b
      [] v.t = "list" -> v.l # <<>>
      [] v.t = "dict" -> DOMAIN v.d # {}

IsNone(v) == v.t = "None"

\* isinstance(v, list) / isinstance(v, str) / isinstance(v, int); bool is a
\* subclass of int
IsList(v) == v.t = "list"
IsStr(v) == v.t = "str"
IsInt(v) == v.t \in {"int", "bool"}

\* a or b
PyOr(a, b) == IF Truthy(a) THEN a ELSE b

\* the text an f-string substitutes for {v}
Fmt(v) ==
    CASE v.t = "int"  -> ToString(v.i)
      [] v.t = "str"  -> v.s
      [] v.t = "bool" -> (IF v.b THEN "True" ELSE "False")
      [] v.t = "None" -> "None"

----------------------------------------------------------------------------
(* Input domains *)

Ids == 0..MaxId
IntVals == {IntV(i) : i \in Ids}
OptInt == {None} \cup IntVals
BoolVals == {BoolV(b) : b \in BOOLEAN}
OptBool == {None} \cup BoolVals

SeqsUpTo(S, n) == UNION {[1..k -> S] : k \in 0..n}
IdLists == {ListV(l) : l \in SeqsUpTo(Ids, MaxLen)}

\* the lists of records a response carries: empty, one record, or a first
\* record followed by another (the code reads element [0] only)
RecordLists(S) == {<<>>} \cup {<<a>> : a \in S} \cup {<<a, b>> : a \in S, b \in S}

SortKeyVals == {None, StrV(""), StrV("title")}
SortDirVals == {None, StrV(""), StrV("ascending")}

----------------------------------------------------------------------------
(* The remote service *)

Fail == [ok |-> FALSE, json |-> None]
Ok(j) == [ok |-> TRUE, json |-> j]

\* any endpoint: a transport error or a decoded JSON body
Responses == {Fail, Ok(DictV([status |-> StrV("a")])), Ok(DictV([status |-> StrV("b")]))}

\* qualityprofile / metadataprofile: a list of profile records
ProfileRec(i) == DictV([id |-> IntV(i), name |-> StrV("profile")])
ProfileLists == {ListV(l) : l \in RecordLists({ProfileRec(i) : i \in Ids})}
ProfileResponses == {Fail} \cup {Ok(j) : j \in ProfileLists}

APIs == {"lidarr", "radarr"}

----------------------------------------------------------------------------
(* Base client (pyarr/base.py, pyarr/request_handler.py).  A request is    *)
(* recorded as the arguments the helper was called with.                   *)

Request(verb, path, ver, params, data) ==
    [verb |-> verb, path |-> path, ver |-> ver, params |-> params, data |-> data]

\* self._get(path, ver_uri, params)
Get(path, ver, params) == Request("GET", path, ver, params, None)

\* self._post(path, ver_uri, data=data)
Post(path, ver, data) == Request("POST", path, ver, None, data)

\* self._put(path, ver_uri, data=data, params=params)
Put_(path, ver, params, data) == Request("PUT", path, ver, params, data)

\* self._delete(path, ver_uri, params=params, data=data)
Delete(path, ver, params, data) == Request("DELETE", path, ver, params, data)

\* self.get_quality_profile() of the base class, called without an id
get_quality_profile_req(ver) == Get("qualityprofile", ver, None)

\* every client using the movie service's prefix
ver_uri_V3(api) == "/v3"

\* self.ver_uri
ver_uri(api) == config[api].ver_uri

NoLocals == [quality_profile_id |-> None, metadata_profile_id |-> None,
             tmdb |-> None, json |-> None]

\* entry of a public method: the previous invocation has ended
Begin(api, method, args) ==
    /\ pc = "idle"
    /\ call' = [api |-> api, method |-> method, args |-> args]
    /\ UNCHANGED config

\* a method that issues the single request req and returns its response;
\* a failed request raises out of the method
Single(req, ws) ==
    \E resp \in Responses :
        /\ reqs' = <<req>>
        /\ resps' = <<resp>>
        /\ warns' = ws
        /\ outcome' = IF resp.ok THEN "returned" ELSE "RequestError"
        /\ result' = resp.json
        /\ pc' = "done"
        /\ locals' = NoLocals

\* a method that raises exc before any request
RaiseLocal(exc) ==
    /\ reqs' = <<>>
    /\ resps' = <<>>
    /\ warns' = <<>>
    /\ outcome' = exc
    /\ result' = None
    /\ pc' = "done"
    /\ locals' = NoLocals

\* an exception inside a multi-request invocation, after the request req
\* was answered by resp
RaiseAfter(req, resp, exc) ==
    /\ reqs' = Append(reqs, req)
    /\ resps' = Append(resps, resp)
    /\ outcome' = exc
    /\ result' = None
    /\ pc' = "done"
    /\ UNCHANGED <<config, call, locals, warns>>

----------------------------------------------------------------------------
(* LidarrAPI *)

\* add_root_folder with the two profile ids exchanged
Lidarr_add_root_folder_json_Swapped(a) ==
    DictV([defaultTags |-> PyOr(a.defaultTags, ListV(<<>>)),
           defaultQualityProfileId |-> a.metadataProfile,
           defaultMetadataProfileId |-> a.qualityProfile,
           name |-> a.name,
           path |-> a.path])

\* LidarrAPI.add_root_folder
Lidarr_add_root_folder_json(a) ==
    DictV([defaultTags |-> PyOr(a.defaultTags, ListV(<<>>)),
           defaultQualityProfileId |-> a.qualityProfile,
           defaultMetadataProfileId |-> a.metadataProfile,
           name |-> a.name,
           path |-> a.path])

Lidarr_add_root_folder ==
    /\ pc = "idle"
    /\ \E name \in {StrV("music")}, path \in {StrV("/data/music"), StrV("/m")},
       qualityProfile \in IntVals, metadataProfile \in IntVals,
       defaultTags \in {None} \cup IdLists :
        LET a == [name |-> name, path |-> path, qualityProfile |-> qualityProfile,
                  metadataProfile |-> metadataProfile, defaultTags |-> defaultTags]
        IN  /\ Begin("lidarr", "add_root_folder", a)
            /\ Single(Post("rootfolder", ver_uri("lidarr"), Lidarr_add_root_folder_json(a)), <<>>)

\* the query parameters with presence tested by truthiness
get_tracks_params_Truthy(a) ==
    LET p1 == IF Truthy(a.artistId) THEN Put(EmptyDict, "artistId", a.artistId) ELSE EmptyDict
        p2 == IF Truthy(a.albumId) THEN Put(p1, "albumId", a.albumId) ELSE p1
        p3 == IF Truthy(a.albumReleaseId) THEN Put(p2, "albumReleaseId", a.albumReleaseId) ELSE p2
        p4 == IF IsList(a.trackIds) THEN Put(p3, "trackIds", a.trackIds) ELSE p3
    IN  DictV(p4)

\* LidarrAPI.get_tracks: the query parameters
get_tracks_params(a) ==
    LET p1 == IF ~IsNone(a.artistId) THEN Put(EmptyDict, "artistId", a.artistId) ELSE EmptyDict
        p2 == IF ~IsNone(a.albumId) THEN Put(p1, "albumId", a.albumId) ELSE p1
        p3 == IF ~IsNone(a.albumReleaseId) THEN Put(p2, "albumReleaseId", a.albumReleaseId) ELSE p2
        p4 == IF IsList(a.trackIds) THEN Put(p3, "trackIds", a.trackIds) ELSE p3
    IN  DictV(p4)

\* the selector check with trackIds tested the wrong way round
get_tracks_missing_Inverted(a) ==
    /\ IsNone(a.artistId)
    /\ IsNone(a.albumId)
    /\ IsNone(a.albumReleaseId)
    /\ ~IsNone(a.trackIds)

\* LidarrAPI.get_tracks: the "at least one selector" check
get_tracks_missing(a) ==
    /\ IsNone(a.artistId)
    /\ IsNone(a.albumId)
    /\ IsNone(a.albumReleaseId)
    /\ IsNone(a.trackIds)

get_tracks_path(a) ==
    "track" \o (IF IsInt(a.trackIds) THEN "/" \o Fmt(a.trackIds) ELSE "")

get_tracks ==
    /\ pc = "idle"
    /\ \E artistId \in OptInt, albumId \in OptInt, albumReleaseId \in OptInt,
       trackIds \in OptInt \cup IdLists :
        LET a == [artistId |-> artistId, albumId |-> albumId,
                  albumReleaseId |-> albumReleaseId, trackIds |-> trackIds]
        IN  /\ Begin("lidarr", "get_tracks", a)
            /\ IF get_tracks_missing(a)
               THEN RaiseLocal("PyarrMissingArgument")
               ELSE Single(Get(get_tracks_path(a), ver_uri("lidarr"), get_tracks_params(a)), <<>>)

\* LidarrAPI.delete_track_file
delete_track_file_req(ids_, ver) ==
    Delete("trackfile/" \o (IF IsList(ids_) THEN "bulk" ELSE Fmt(ids_)),
           ver, None,
           IF IsList(ids_) THEN DictV([trackFileIds |-> ids_]) ELSE None)

delete_track_file ==
    /\ pc = "idle"
    /\ \E ids_ \in IntVals \cup IdLists :
        /\ Begin("lidarr", "delete_track_file", [ids_ |-> ids_])
        /\ Single(delete_track_file_req(ids_, ver_uri("lidarr")), <<>>)

----------------------------------------------------------------------------
(* Paginated endpoints *)

\* "if page: ... if page_size: ..." of get_queue / get_wanted
PageParams(a) ==
    LET p1 == IF Truthy(a.page) THEN Put(EmptyDict, "page", a.page) ELSE EmptyDict
    IN  IF Truthy(a.page_size) THEN Put(p1, "pageSize", a.page_size) ELSE p1

\* the sort parameters without the direction
SortParams_KeyOnly(p, a) ==
    IF Truthy(a.sort_key) /\ Truthy(a.sort_dir)
    THEN Put(p, "sortKey", a.sort_key)
    ELSE p

\* "if sort_key and sort_dir: ..." of get_queue / get_wanted
SortParams(p, a) ==
    IF Truthy(a.sort_key) /\ Truthy(a.sort_dir)
    THEN Put(Put(p, "sortKey", a.sort_key), "sortDirection", a.sort_dir)
    ELSE p

\* "elif sort_key or sort_dir: raise PyarrMissingArgument"
SortMissing(a) ==
    /\ ~(Truthy(a.sort_key) /\ Truthy(a.sort_dir))
    /\ (Truthy(a.sort_key) \/ Truthy(a.sort_dir))

\* LidarrAPI.get_wanted
get_wanted_req(a, ver) ==
    Get("wanted/" \o (IF Truthy(a.missing) THEN "missing" ELSE "cutoff")
            \o (IF IsNone(a.id_) THEN "" ELSE "/" \o Fmt(a.id_)),
        ver, DictV(SortParams(PageParams(a), a)))

get_wanted ==
    /\ pc = "idle"
    /\ \E id_ \in OptInt, page \in OptInt, page_size \in OptInt,
       sort_key \in SortKeyVals, sort_dir \in SortDirVals, missing \in BoolVals :
        LET a == [id_ |-> id_, page |-> page, page_size |-> page_size,
                  sort_key |-> sort_key, sort_dir |-> sort_dir, missing |-> missing]
        IN  /\ Begin("lidarr", "get_wanted", a)
            /\ IF SortMissing(a)
               THEN RaiseLocal("PyarrMissingArgument")
               ELSE Single(get_wanted_req(a, ver_uri("lidarr")), <<>>)

\* LidarrAPI.get_queue
Lidarr_get_queue_params(a) ==
    LET p0 == SortParams(PageParams(a), a)
        p1 == IF Truthy(a.unknown_artists) THEN Put(p0, "unknownArtists", a.unknown_artists) ELSE p0
        p2 == IF Truthy(a.include_album) THEN Put(p1, "includeAlbum", a.include_album) ELSE p1
        p3 == IF Truthy(a.include_artist) THEN Put(p2, "includeArtist", a.include_artist) ELSE p2
    IN  DictV(p3)

Lidarr_get_queue ==
    /\ pc = "idle"
    /\ \E page \in OptInt, page_size \in OptInt,
       sort_key \in SortKeyVals, sort_dir \in SortDirVals,
       unknown_artists \in OptBool, include_artist \in OptBool, include_album \in OptBool :
        LET a == [page |-> page, page_size |-> page_size,
                  sort_key |-> sort_key, sort_dir |-> sort_dir,
                  unknown_artists |-> unknown_artists,
                  include_artist |-> include_artist, include_album |-> include_album]
        IN  /\ Begin("lidarr", "get_queue", a)
            /\ IF SortMissing(a)
               THEN RaiseLocal("PyarrMissingArgument")
               ELSE Single(Get("queue", ver_uri("lidarr"), Lidarr_get_queue_params(a)), <<>>)

\* RadarrAPI.get_queue testing include_unknown_movie_items by truthiness
Radarr_get_queue_params_Truthy(a) ==
    LET p0 == SortParams(PageParams(a), a)
        p1 == IF Truthy(a.include_unknown_movie_items)
              THEN Put(p0, "includeUnknownMovieItems", a.include_unknown_movie_items)
              ELSE p0
    IN  DictV(p1)

\* RadarrAPI.get_queue
Radarr_get_queue_params(a) ==
    LET p0 == SortParams(PageParams(a), a)
        p1 == IF ~IsNone(a.include_unknown_movie_items)
              THEN Put(p0, "includeUnknownMovieItems", a.include_unknown_movie_items)
              ELSE p0
    IN  DictV(p1)

Radarr_get_queue ==
    /\ pc = "idle"
    /\ \E page \in OptInt, page_size \in OptInt,
       sort_dir \in SortDirVals, sort_key \in SortKeyVals,
       include_unknown_movie_items \in OptBool :
        LET a == [page |-> page, page_size |-> page_size,
                  sort_dir |-> sort_dir, sort_key |-> sort_key,
                  include_unknown_movie_items |-> include_unknown_movie_items]
        IN  /\ Begin("radarr", "get_queue", a)
            /\ IF SortMissing(a)
               THEN RaiseLocal("PyarrMissingArgument")
               ELSE Single(Get("queue", ver_uri("radarr"), Radarr_get_queue_params(a)), <<>>)

----------------------------------------------------------------------------
(* RadarrAPI: deletes *)

\* del_movie_file sending the list to the single-item path
del_movie_file_req_NoBulk(id_, ver) ==
    Delete("moviefile" \o (IF IsList(id_) THEN "" ELSE "/" \o Fmt(id_)),
           ver, None,
           IF IsList(id_) THEN DictV([movieFileIds |-> id_]) ELSE None)

\* RadarrAPI.del_movie_file
del_movie_file_req(id_, ver) ==
    Delete(IF IsList(id_) THEN "moviefile/bulk" ELSE "moviefile/" \o Fmt(id_),
           ver, None,
           IF IsList(id_) THEN DictV([movieFileIds |-> id_]) ELSE None)

del_movie_file ==
    /\ pc = "idle"
    /\ \E id_ \in IntVals \cup IdLists :
        /\ Begin("radarr", "del_movie_file", [id_ |-> id_])
        /\ Single(del_movie_file_req(id_, ver_uri("radarr")), <<>>)

\* RadarrAPI.del_movie: the params dictionary
del_movie_params(a) ==
    LET p1 == IF Truthy(a.delete_files)
              THEN Put(EmptyDict, "deleteFiles", StrV(Fmt(a.delete_files))) ELSE EmptyDict
        p2 == IF Truthy(a.add_exclusion)
              THEN Put(p1, "addImportExclusion", StrV(Fmt(a.add_exclusion))) ELSE p1
        p3 == IF IsList(a.id_) THEN Put(p2, "movieIds", a.id_) ELSE p2
    IN  DictV(p3)

\* del_movie sending the options as query parameters for every id shape
del_movie_req_Query(a, ver) ==
    Delete(IF IsList(a.id_) THEN "movie/editor" ELSE "movie/" \o Fmt(a.id_),
           ver, del_movie_params(a), None)

del_movie_req(a, ver) ==
    Delete(IF IsList(a.id_) THEN "movie/editor" ELSE "movie/" \o Fmt(a.id_),
           ver,
           IF IsList(a.id_) THEN None ELSE del_movie_params(a),
           IF IsList(a.id_) THEN del_movie_params(a) ELSE None)

del_movie ==
    /\ pc = "idle"
    /\ \E id_ \in IntVals \cup IdLists, delete_files \in OptBool, add_exclusion \in OptBool :
        LET a == [id_ |-> id_, delete_files |-> delete_files, add_exclusion |-> add_exclusion]
        IN  /\ Begin("radarr", "del_movie", a)
            /\ Single(del_movie_req(a, ver_uri("radarr")), <<>>)

----------------------------------------------------------------------------
(* Lookup-and-create: LidarrAPI.add_artist, LidarrAPI.add_album *)

\* records the artist/album lookup endpoints return: the remote id, stale
\* profile ids and flags of the candidate
LookupRec(i) ==
    DictV([id |-> IntV(i), foreignId |-> StrV("mbid"),
           qualityProfileId |-> IntV(i), metadataProfileId |-> IntV(i),
           monitored |-> BoolV(FALSE)])
LookupRecs == {LookupRec(i) : i \in Ids}
LookupLists == {ListV(l) : l \in RecordLists(LookupRecs)}
LookupResponses == {Fail} \cup {Ok(j) : j \in LookupLists}

MonitorModes == {StrV("all"), StrV("none")}

AddArgs ==
    [id_ : {StrV("mbid")}, root_dir : {StrV("/music")},
     quality_profile_id : OptInt, metadata_profile_id : OptInt,
     monitored : BoolVals, artist_monitor : MonitorModes,
     artist_search_for_missing_albums : BoolVals]

\* add_artist / add_album looking up before any profile is resolved
BeginAdd_LookupFirst(method, a) ==
    /\ Begin("lidarr", method, a)
    /\ pc' = "lookup"
    /\ locals' = [NoLocals EXCEPT !.quality_profile_id = a.quality_profile_id,
                                  !.metadata_profile_id = a.metadata_profile_id]
    /\ reqs' = <<>>
    /\ resps' = <<>>
    /\ warns' = <<>>
    /\ outcome' = "pending"
    /\ result' = None

\* entry of add_artist / add_album: the arguments become the locals of
\* _artist_json / _album_json
BeginAdd(method, a) ==
    /\ Begin("lidarr", method, a)
    /\ pc' = "quality"
    /\ locals' = [NoLocals EXCEPT !.quality_profile_id = a.quality_profile_id,
                                  !.metadata_profile_id = a.metadata_profile_id]
    /\ reqs' = <<>>
    /\ resps' = <<>>
    /\ warns' = <<>>
    /\ outcome' = "pending"
    /\ result' = None

add_artist == pc = "idle" /\ \E a \in AddArgs : BeginAdd("add_artist", a)

add_album == pc = "idle" /\ \E a \in AddArgs : BeginAdd("add_album", a)

\* the default-profile fallback with an empty list swallowed: the field
\* stays None and the operation goes on
DefaultProfile_Swallow(field, req, nextpc) ==
    IF IsNone(locals[field])
    THEN \E resp \in ProfileResponses :
            IF ~resp.ok
            THEN RaiseAfter(req, resp, "RequestError")
            ELSE /\ reqs' = Append(reqs, req)
                 /\ resps' = Append(resps, resp)
                 /\ locals' = [locals EXCEPT ![field] =
                                  IF Len(resp.json.l) = 0 THEN None ELSE resp.json.l[1].d.id]
                 /\ pc' = nextpc
                 /\ UNCHANGED <<config, call, warns, outcome, result>>
    ELSE /\ pc' = nextpc
         /\ UNCHANGED <<config, call, locals, reqs, resps, warns, outcome, result>>

\* the default-profile fallback taking the last profile of the list
DefaultProfile_Last(field, req, nextpc) ==
    IF IsNone(locals[field])
    THEN \E resp \in ProfileResponses :
            IF ~resp.ok
            THEN RaiseAfter(req, resp, "RequestError")
            ELSE IF Len(resp.json.l) = 0
            THEN RaiseAfter(req, resp, "PyarrMissingProfile")
            ELSE /\ reqs' = Append(reqs, req)
                 /\ resps' = Append(resps, resp)
                 /\ locals' = [locals EXCEPT ![field] = resp.json.l[Len(resp.json.l)].d.id]
                 /\ pc' = nextpc
                 /\ UNCHANGED <<config, call, warns, outcome, result>>
    ELSE /\ pc' = nextpc
         /\ UNCHANGED <<config, call, locals, reqs, resps, warns, outcome, result>>

\* the default-profile fallback fetching the list again after a failure
DefaultProfile_Retry(field, req, nextpc) ==
    IF IsNone(locals[field])
    THEN \E resp \in ProfileResponses :
            IF ~resp.ok
            THEN /\ Len(reqs) < 4
                 /\ reqs' = Append(reqs, req)
                 /\ resps' = Append(resps, resp)
                 /\ UNCHANGED <<config, call, locals, pc, warns, outcome, result>>
            ELSE IF Len(resp.json.l) = 0
            THEN RaiseAfter(req, resp, "PyarrMissingProfile")
            ELSE /\ reqs' = Append(reqs, req)
                 /\ resps' = Append(resps, resp)
                 /\ locals' = [locals EXCEPT ![field] = resp.json.l[1].d.id]
                 /\ pc' = nextpc
                 /\ UNCHANGED <<config, call, warns, outcome, result>>
    ELSE /\ pc' = nextpc
         /\ UNCHANGED <<config, call, locals, reqs, resps, warns, outcome, result>>

\* "if <field> is None: try: <field> = self.get_..._profile()[0]["id"]
\*  except IndexError: raise PyarrMissingProfile"
DefaultProfile(field, req, nextpc) ==
    IF IsNone(locals[field])
    THEN \E resp \in ProfileResponses :
            IF ~resp.ok
            THEN RaiseAfter(req, resp, "RequestError")
            ELSE IF Len(resp.json.l) = 0
            THEN RaiseAfter(req, resp, "PyarrMissingProfile")
            ELSE /\ reqs' = Append(reqs, req)
                 /\ resps' = Append(resps, resp)
                 /\ locals' = [locals EXCEPT ![field] = resp.json.l[1].d.id]
                 /\ pc' = nextpc
                 /\ UNCHANGED <<config, call, warns, outcome, result>>
    ELSE /\ pc' = nextpc
         /\ UNCHANGED <<config, call, locals, reqs, resps, warns, outcome, result>>

\* LidarrAPI.get_metadata_profile
get_metadata_profile_path(id_) ==
    "metadataprofile" \o (IF Truthy(id_) THEN "/" \o Fmt(id_) ELSE "")

\* _artist_json / _album_json: the quality profile
json_quality ==
    /\ pc = "quality"
    /\ DefaultProfile("quality_profile_id", get_quality_profile_req(ver_uri("lidarr")), "metadata")

\* _artist_json / _album_json: the metadata profile
json_metadata ==
    /\ pc = "metadata"
    /\ DefaultProfile("metadata_profile_id",
                      Get(get_metadata_profile_path(None), ver_uri("lidarr"), None), "lookup")

\* AddRecord without the id reset
AddRecord_KeepsId(rec, a, L) ==
    LET r2 == Put(rec.d, "metadataProfileId", L.metadata_profile_id)
        r3 == Put(r2, "qualityProfileId", L.quality_profile_id)
        r4 == Put(r3, "rootFolderPath", a.root_dir)
        r5 == Put(r4, "addOptions",
                  DictV([monitor |-> a.artist_monitor,
                         searchForMissingAlbums |-> a.artist_search_for_missing_albums]))
        r6 == Put(r5, "monitored", a.monitored)
    IN  DictV(r6)

\* _artist_json / _album_json: the record built from the first lookup result
AddRecord(rec, a, L) ==
    LET r1 == Put(rec.d, "id", IntV(0))
        r2 == Put(r1, "metadataProfileId", L.metadata_profile_id)
        r3 == Put(r2, "qualityProfileId", L.quality_profile_id)
        r4 == Put(r3, "rootFolderPath", a.root_dir)
        r5 == Put(r4, "addOptions",
                  DictV([monitor |-> a.artist_monitor,
                         searchForMissingAlbums |-> a.artist_search_for_missing_albums]))
        r6 == Put(r5, "monitored", a.monitored)
    IN  DictV(r6)

\* the resource of the invocation: add_artist works on artist, add_album on album
Resource(method) == IF method = "add_artist" THEN "artist" ELSE "album"

\* self.lookup_artist(term=f"lidarr:{id_}") / self.lookup_album(...)
lookup_req(method, id_, ver) ==
    Get(Resource(method) \o "/lookup", ver, DictV([term |-> StrV("lidarr:" \o Fmt(id_))]))

\* _artist_json / _album_json: the lookup, [0] of its result, and the record
json_lookup ==
    /\ pc = "lookup"
    /\ LET req == lookup_req(call.method, call.args.id_, ver_uri("lidarr"))
       IN  \E resp \in LookupResponses :
            IF ~resp.ok
            THEN RaiseAfter(req, resp, "RequestError")
            ELSE IF Len(resp.json.l) = 0
            THEN RaiseAfter(req, resp, "IndexError")
            ELSE /\ reqs' = Append(reqs, req)
                 /\ resps' = Append(resps, resp)
                 /\ locals' = [locals EXCEPT !.json = AddRecord(resp.json.l[1], call.args, locals)]
                 /\ pc' = "post"
                 /\ UNCHANGED <<config, call, warns, outcome, result>>

\* add_artist / add_album returning the record they sent
add_post_ReturnsRecord ==
    /\ pc = "post"
    /\ LET req == Post(Resource(call.method), ver_uri("lidarr"), locals.json)
       IN  \E resp \in Responses :
            /\ reqs' = Append(reqs, req)
            /\ resps' = Append(resps, resp)
            /\ outcome' = IF resp.ok THEN "returned" ELSE "RequestError"
            /\ result' = locals.json
            /\ pc' = "done"
            /\ UNCHANGED <<config, call, locals, warns>>

\* add_artist / add_album: return self._post(resource, self.ver_uri, data=json)
add_post ==
    /\ pc = "post"
    /\ LET req == Post(Resource(call.method), ver_uri("lidarr"), locals.json)
       IN  \E resp \in Responses :
            /\ reqs' = Append(reqs, req)
            /\ resps' = Append(resps, resp)
            /\ outcome' = IF resp.ok THEN "returned" ELSE "RequestError"
            /\ result' = resp.json
            /\ pc' = "done"
            /\ UNCHANGED <<config, call, locals, warns>>

----------------------------------------------------------------------------
(* Lookup-and-create: RadarrAPI.add_movie, RadarrAPI._movie_json *)

MovieRec(i) ==
    DictV([id |-> IntV(i), title |-> StrV("title"), year |-> IntV(i),
           tmdbId |-> IntV(i), images |-> ListV(<<>>), titleSlug |-> StrV("slug")])
MovieLists == {ListV(l) : l \in RecordLists({MovieRec(i) : i \in Ids})}
MovieResponses == {Fail} \cup {Ok(j) : j \in MovieLists}

MovieArgs ==
    [id_ : {IntV(MaxId), StrV("tt1")}, root_dir : {StrV("/movies")},
     quality_profile_id : IntVals, monitored : BoolVals,
     search_for_movie : BoolVals, tmdb : OptBool]

\* RadarrAPI.add_movie up to the call of _movie_json, which receives no tmdb
add_movie ==
    /\ pc = "idle"
    /\ \E a \in MovieArgs :
        /\ Begin("radarr", "add_movie", a)
        /\ warns' = IF Truthy(a.tmdb) THEN <<0>> ELSE <<>>
        /\ locals' = [NoLocals EXCEPT !.tmdb = None]
        /\ pc' = "movie_json"
        /\ reqs' = <<>>
        /\ resps' = <<>>
        /\ outcome' = "pending"
        /\ result' = None

\* a direct call of RadarrAPI._movie_json
movie_json_call ==
    /\ pc = "idle"
    /\ \E a \in MovieArgs :
        /\ Begin("radarr", "_movie_json", a)
        /\ warns' = <<>>
        /\ locals' = [NoLocals EXCEPT !.tmdb = a.tmdb]
        /\ pc' = "movie_json"
        /\ reqs' = <<>>
        /\ resps' = <<>>
        /\ outcome' = "pending"
        /\ result' = None

\* RadarrAPI.lookup_movie
lookup_movie_req(term, ver) == Get("movie/lookup", ver, DictV([term |-> term]))

\* the term _movie_json looks up
movie_json_term(id_) ==
    IF IsInt(id_) THEN StrV("tmdb:" \o Fmt(id_)) ELSE StrV("imdb:" \o Fmt(id_))

\* the movie record with the monitored default instead of the argument
MovieRecord_Monitored(movie, a) ==
    DictV([title |-> movie.d.title,
           rootFolderPath |-> a.root_dir,
           qualityProfileId |-> a.quality_profile_id,
           year |-> movie.d.year,
           tmdbId |-> movie.d.tmdbId,
           images |-> movie.d.images,
           titleSlug |-> movie.d.titleSlug,
           monitored |-> BoolV(TRUE),
           addOptions |-> DictV([searchForMovie |-> a.search_for_movie])])

\* the dictionary _movie_json returns
MovieRecord(movie, a) ==
    DictV([title |-> movie.d.title,
           rootFolderPath |-> a.root_dir,
           qualityProfileId |-> a.quality_profile_id,
           year |-> movie.d.year,
           tmdbId |-> movie.d.tmdbId,
           images |-> movie.d.images,
           titleSlug |-> movie.d.titleSlug,
           monitored |-> a.monitored,
           addOptions |-> DictV([searchForMovie |-> a.search_for_movie])])

\* the body of RadarrAPI._movie_json
movie_json ==
    /\ pc = "movie_json"
    /\ LET req == lookup_movie_req(movie_json_term(call.args.id_), ver_uri("radarr"))
           ws == IF ~IsNone(locals.tmdb) THEN Append(warns, Len(reqs)) ELSE warns
       IN  \E resp \in MovieResponses :
            /\ reqs' = Append(reqs, req)
            /\ resps' = Append(resps, resp)
            /\ warns' = ws
            /\ UNCHANGED <<config, call>>
            /\ IF ~resp.ok
               THEN outcome' = "RequestError" /\ result' = None /\ pc' = "done"
                    /\ UNCHANGED locals
               ELSE IF Truthy(resp.json)
               THEN LET rec == MovieRecord(resp.json.l[1], call.args)
                    IN  IF call.method = "_movie_json"
                        THEN outcome' = "returned" /\ result' = rec /\ pc' = "done"
                             /\ UNCHANGED locals
                        ELSE locals' = [locals EXCEPT !.json = rec] /\ pc' = "movie_post"
                             /\ UNCHANGED <<outcome, result>>
               ELSE outcome' = "PyarrRecordNotFound" /\ result' = None /\ pc' = "done"
                    /\ UNCHANGED locals

\* add_movie re-issuing the POST once after a failure
add_movie_post_Retry ==
    /\ pc = "movie_post"
    /\ LET req == Post("movie", ver_uri("radarr"), locals.json)
       IN  \E resp \in Responses, again \in Responses :
            /\ reqs' = IF resp.ok THEN Append(reqs, req) ELSE reqs \o <<req, req>>
            /\ resps' = IF resp.ok THEN Append(resps, resp) ELSE resps \o <<resp, again>>
            /\ outcome' = IF resp.ok \/ again.ok THEN "returned" ELSE "RequestError"
            /\ result' = IF resp.ok THEN resp.json ELSE again.json
            /\ pc' = "done"
            /\ UNCHANGED <<config, call, locals, warns>>

\* add_movie: return self._post("movie", self.ver_uri, data=movie_json)
add_movie_post ==
    /\ pc = "movie_post"
    /\ LET req == Post("movie", ver_uri("radarr"), locals.json)
       IN  \E resp \in Responses :
            /\ reqs' = Append(reqs, req)
            /\ resps' = Append(resps, resp)
            /\ outcome' = IF resp.ok THEN "returned" ELSE "RequestError"
            /\ result' = resp.json
            /\ pc' = "done"
            /\ UNCHANGED <<config, call, locals, warns>>

----------------------------------------------------------------------------
(* Opaque records and search terms passed through by the caller *)

JsonData == {DictV([id |-> IntV(i), title |-> StrV("x")]) : i \in Ids}
JsonLists == {ListV(l) : l \in SeqsUpTo(JsonData, 1)}
Terms == {StrV("my string")}

----------------------------------------------------------------------------
(* RadarrAPI: deprecated aliases *)

\* a deprecated alias that emits its notice only once the request is back
Deprecated_Late(req) == Single(req, <<1>>)

\* warn(..., DeprecationWarning, stacklevel=2) followed by the request: the
\* notice is emitted while no request has been issued yet
Deprecated(req) == Single(req, <<0>>)

\* RadarrAPI.get_movie_by_movie_id
get_movie_by_movie_id ==
    /\ pc = "idle"
    /\ \E id_ \in IntVals :
        /\ Begin("radarr", "get_movie_by_movie_id", [id_ |-> id_])
        /\ Deprecated(Get("movie/" \o Fmt(id_), ver_uri("radarr"), None))

\* RadarrAPI.lookup_movie_by_tmdb_id
lookup_movie_by_tmdb_id ==
    /\ pc = "idle"
    /\ \E id_ \in IntVals :
        /\ Begin("radarr", "lookup_movie_by_tmdb_id", [id_ |-> id_])
        /\ Deprecated(Get("movie/lookup", ver_uri("radarr"),
                          DictV([term |-> StrV("tmdb:" \o Fmt(id_))])))

\* RadarrAPI.lookup_movie_by_imdb_id
lookup_movie_by_imdb_id ==
    /\ pc = "idle"
    /\ \E id_ \in {StrV("tt1")} :
        /\ Begin("radarr", "lookup_movie_by_imdb_id", [id_ |-> id_])
        /\ Deprecated(Get("movie/lookup", ver_uri("radarr"),
                          DictV([term |-> StrV("imdb:" \o Fmt(id_))])))

\* RadarrAPI.upd_movies
upd_movies ==
    /\ pc = "idle"
    /\ \E data \in JsonData \cup JsonLists :
        /\ Begin("radarr", "upd_movies", [data |-> data])
        /\ Deprecated(Put_("movie/editor", ver_uri("radarr"), None, data))

\* RadarrAPI.del_movies
del_movies ==
    /\ pc = "idle"
    /\ \E ids \in IdLists, flag \in BoolVals :
        LET data == DictV([movieIds |-> ids, deleteFiles |-> flag,
                           addImportExclusion |-> flag])
        IN  /\ Begin("radarr", "del_movies", [data |-> data])
            /\ Deprecated(Delete("movie/editor", ver_uri("radarr"), None, data))

----------------------------------------------------------------------------
(* RadarrAPI: movie, movie file, indexer, command *)

\* get_movie keeping the id in the path when tmdb is set
get_movie_req_IdPath(a, ver) ==
    Get("movie" \o (IF IsNone(a.id_) THEN "" ELSE "/" \o Fmt(a.id_)),
        ver,
        DictV(IF Truthy(a.tmdb) THEN Put(EmptyDict, "tmdbid", a.id_) ELSE EmptyDict))

\* RadarrAPI.get_movie
get_movie_req(a, ver) ==
    Get("movie" \o (IF IsNone(a.id_) \/ Truthy(a.tmdb) THEN "" ELSE "/" \o Fmt(a.id_)),
        ver,
        DictV(IF Truthy(a.tmdb) THEN Put(EmptyDict, "tmdbid", a.id_) ELSE EmptyDict))

get_movie ==
    /\ pc = "idle"
    /\ \E id_ \in OptInt, tmdb \in BoolVals :
        LET a == [id_ |-> id_, tmdb |-> tmdb]
        IN  /\ Begin("radarr", "get_movie", a)
            /\ Single(get_movie_req(a, ver_uri("radarr")), <<>>)

\* RadarrAPI.lookup_movie
lookup_movie ==
    /\ pc = "idle"
    /\ \E term \in Terms \cup {StrV("tmdb:" \o ToString(i)) : i \in Ids} \cup {StrV("imdb:tt1")} :
        /\ Begin("radarr", "lookup_movie", [term |-> term])
        /\ Single(lookup_movie_req(term, ver_uri("radarr")), <<>>)

\* upd_movie testing move_files by truthiness
upd_movie_req_Truthy(a, ver) ==
    Put_("movie" \o (IF IsList(a.data) THEN "/editor" ELSE ""),
         ver,
         DictV(IF Truthy(a.move_files) THEN Put(EmptyDict, "moveFiles", a.move_files)
               ELSE EmptyDict),
         a.data)

\* RadarrAPI.upd_movie
upd_movie_req(a, ver) ==
    Put_("movie" \o (IF IsList(a.data) THEN "/editor" ELSE ""),
         ver,
         DictV(IF ~IsNone(a.move_files) THEN Put(EmptyDict, "moveFiles", a.move_files)
               ELSE EmptyDict),
         a.data)

upd_movie ==
    /\ pc = "idle"
    /\ \E data \in JsonData \cup JsonLists, move_files \in OptBool :
        LET a == [data |-> data, move_files |-> move_files]
        IN  /\ Begin("radarr", "upd_movie", a)
            /\ Single(upd_movie_req(a, ver_uri("radarr")), <<>>)

\* the movieFileIds pairs in reverse order
get_movie_file_pairs_Reversed(ids) ==
    [k \in DOMAIN ids |-> <<"movieFileIds", ids[Len(ids) + 1 - k]>>]

\* RadarrAPI.get_movie_file: params = [("movieFileIds", file) for file in id_]
get_movie_file_pairs(ids) == [k \in DOMAIN ids |-> <<"movieFileIds", ids[k]>>]

get_movie_file_req(id_, ver) ==
    IF ~IsList(id_)
    THEN Get("moviefile/" \o Fmt(id_), ver, None)
    ELSE Get("moviefile", ver, PairsV(get_movie_file_pairs(id_.l)))

get_movie_file ==
    /\ pc = "idle"
    /\ \E id_ \in IntVals \cup IdLists :
        /\ Begin("radarr", "get_movie_file", [id_ |-> id_])
        /\ Single(get_movie_file_req(id_, ver_uri("radarr")), <<>>)

\* RadarrAPI.get_indexer
get_indexer_path(id_) == IF Truthy(id_) THEN "indexer/" \o Fmt(id_) ELSE "indexer"

get_indexer ==
    /\ pc = "idle"
    /\ \E id_ \in OptInt :
        /\ Begin("radarr", "get_indexer", [id_ |-> id_])
        /\ Single(Get(get_indexer_path(id_), ver_uri("radarr"), None), <<>>)

\* the keyword arguments a caller may write after name
KwargKeys == {"name", "movieIds", "clientid"}
KwargVals == {IntV(MaxId), StrV("Backup")}
Kwargs == UNION {[K -> KwargVals] : K \in SUBSET KwargKeys}

\* post_command leaving the keyword arguments out of the body
Radarr_post_command_data_NameOnly(name, kwargs) == DictV([name |-> name])

\* RadarrAPI.post_command: data = {"name": name}; if kwargs: data |= kwargs
Radarr_post_command_data(name, kwargs) ==
    DictV(IF DOMAIN kwargs # {} THEN Merge([name |-> name], kwargs) ELSE [name |-> name])

\* a keyword argument called name collides with the parameter name: Python
\* raises TypeError when binding the arguments, before the body runs
Radarr_post_command ==
    /\ pc = "idle"
    /\ \E name \in {StrV("RefreshMovie"), StrV("Backup")}, kwargs \in Kwargs :
        /\ Begin("radarr", "post_command", [name |-> name, kwargs |-> kwargs])
        /\ IF "name" \in DOMAIN kwargs
           THEN RaiseLocal("TypeError")
           ELSE Single(Post("command", ver_uri("radarr"),
                            Radarr_post_command_data(name, kwargs)), <<>>)

----------------------------------------------------------------------------
(* LidarrAPI: artist, album, track file, metadata profile, command *)

\* get_artist choosing the path by truthiness of the id
get_artist_req_Truthy(id_, ver) ==
    Get("artist" \o (IF IsStr(id_) \/ ~Truthy(id_) THEN "" ELSE "/" \o Fmt(id_)),
        ver,
        IF IsStr(id_) THEN DictV([mbId |-> id_]) ELSE None)

\* LidarrAPI.get_artist
get_artist_req(id_, ver) ==
    Get("artist" \o (IF IsStr(id_) \/ IsNone(id_) THEN "" ELSE "/" \o Fmt(id_)),
        ver,
        IF IsStr(id_) THEN DictV([mbId |-> id_]) ELSE None)

get_artist ==
    /\ pc = "idle"
    /\ \E id_ \in OptInt \cup {StrV(""), StrV("123456")} :
        /\ Begin("lidarr", "get_artist", [id_ |-> id_])
        /\ Single(get_artist_req(id_, ver_uri("lidarr")), <<>>)

\* LidarrAPI.get_album
get_album_req(a, ver) ==
    LET p0 == Put(EmptyDict, "includeAllArtistAlbums", a.allArtistAlbums)
        p1 == IF IsList(a.albumIds) THEN Put(p0, "albumids", a.albumIds) ELSE p0
        p2 == IF ~IsNone(a.artistId) THEN Put(p1, "artistId", a.artistId) ELSE p1
        p3 == IF ~IsNone(a.foreignAlbumId) THEN Put(p2, "foreignAlbumId", a.foreignAlbumId) ELSE p2
    IN  Get("album" \o (IF IsList(a.albumIds) \/ IsNone(a.albumIds) THEN ""
                        ELSE "/" \o Fmt(a.albumIds)),
            ver, DictV(p3))

get_album ==
    /\ pc = "idle"
    /\ \E albumIds \in OptInt \cup IdLists, artistId \in OptInt,
          foreignAlbumId \in OptInt, allArtistAlbums \in BoolVals :
        LET a == [albumIds |-> albumIds, artistId |-> artistId,
                  foreignAlbumId |-> foreignAlbumId, allArtistAlbums |-> allArtistAlbums]
        IN  /\ Begin("lidarr", "get_album", a)
            /\ Single(get_album_req(a, ver_uri("lidarr")), <<>>)

\* the selector check of get_track_file with presence tested by truthiness
get_track_file_missing_Truthy(a) ==
    /\ ~Truthy(a.artistId)
    /\ ~Truthy(a.albumId)
    /\ ~Truthy(a.trackFileIds)
    /\ ~Truthy(a.unmapped)

\* LidarrAPI.get_track_file: the "at least one selector" check
get_track_file_missing(a) ==
    /\ IsNone(a.artistId)
    /\ IsNone(a.albumId)
    /\ IsNone(a.trackFileIds)
    /\ IsNone(a.unmapped)

get_track_file_req(a, ver) ==
    LET p1 == IF ~IsNone(a.artistId) THEN Put(EmptyDict, "artistId", a.artistId) ELSE EmptyDict
        p2 == IF ~IsNone(a.albumId) THEN Put(p1, "albumId", a.albumId) ELSE p1
        p3 == IF IsList(a.trackFileIds) THEN Put(p2, "trackFileIds", a.trackFileIds) ELSE p2
        p4 == IF ~IsNone(a.unmapped) THEN Put(p3, "unmapped", a.unmapped) ELSE p3
    IN  Get("trackfile" \o (IF IsInt(a.trackFileIds) THEN "/" \o Fmt(a.trackFileIds) ELSE ""),
            ver, DictV(p4))

get_track_file ==
    /\ pc = "idle"
    /\ \E artistId \in OptInt, albumId \in OptInt,
          trackFileIds \in OptInt \cup IdLists, unmapped \in OptBool :
        LET a == [artistId |-> artistId, albumId |-> albumId,
                  trackFileIds |-> trackFileIds, unmapped |-> unmapped]
        IN  /\ Begin("lidarr", "get_track_file", a)
            /\ IF get_track_file_missing(a)
               THEN RaiseLocal("PyarrMissingArgument")
               ELSE Single(get_track_file_req(a, ver_uri("lidarr")), <<>>)

\* LidarrAPI.get_metadata_profile
get_metadata_profile ==
    /\ pc = "idle"
    /\ \E id_ \in OptInt :
        /\ Begin("lidarr", "get_metadata_profile", [id_ |-> id_])
        /\ Single(Get(get_metadata_profile_path(id_), ver_uri("lidarr"), None), <<>>)

\* LidarrAPI.post_command
Lidarr_post_command ==
    /\ pc = "idle"
    /\ \E name \in {StrV("RefreshArtist"), StrV("Backup")} :
        /\ Begin("lidarr", "post_command", [name |-> name])
        /\ Single(Post("command", ver_uri("lidarr"), DictV([name |-> name])), <<>>)

----------------------------------------------------------------------------
(* LidarrAPI: the remaining endpoints *)

\* LidarrAPI.lookup
lookup ==
    /\ pc = "idle"
    /\ \E term \in Terms :
        /\ Begin("lidarr", "lookup", [term |-> term])
        /\ Single(Get("search", ver_uri("lidarr"), DictV([term |-> term])), <<>>)

\* LidarrAPI.lookup_artist
lookup_artist ==
    /\ pc = "idle"
    /\ \E term \in Terms :
        /\ Begin("lidarr", "lookup_artist", [term |-> term])
        /\ Single(Get("artist/lookup", ver_uri("lidarr"), DictV([term |-> term])), <<>>)

\* LidarrAPI.lookup_album
lookup_album ==
    /\ pc = "idle"
    /\ \E term \in Terms :
        /\ Begin("lidarr", "lookup_album", [term |-> term])
        /\ Single(Get("album/lookup", ver_uri("lidarr"), DictV([term |-> term])), <<>>)

\* LidarrAPI.upd_artist
upd_artist ==
    /\ pc = "idle"
    /\ \E data \in JsonData :
        /\ Begin("lidarr", "upd_artist", [data |-> data])
        /\ Single(Put_("artist", ver_uri("lidarr"), None, data), <<>>)

\* LidarrAPI.delete_artist
delete_artist ==
    /\ pc = "idle"
    /\ \E id_ \in IntVals :
        /\ Begin("lidarr", "delete_artist", [id_ |-> id_])
        /\ Single(Delete("artist/" \o Fmt(id_), ver_uri("lidarr"), None, None), <<>>)

\* LidarrAPI.upd_album
upd_album ==
    /\ pc = "idle"
    /\ \E data \in JsonData :
        /\ Begin("lidarr", "upd_album", [data |-> data])
        /\ Single(Put_("album", ver_uri("lidarr"), None, data), <<>>)

\* LidarrAPI.delete_album
delete_album ==
    /\ pc = "idle"
    /\ \E id_ \in IntVals :
        /\ Begin("lidarr", "delete_album", [id_ |-> id_])
        /\ Single(Delete("album/" \o Fmt(id_), ver_uri("lidarr"), None, None), <<>>)

\* LidarrAPI.get_parse
get_parse ==
    /\ pc = "idle"
    /\ \E title \in Terms :
        /\ Begin("lidarr", "get_parse", [title |-> title])
        /\ Single(Get("parse", ver_uri("lidarr"), DictV([title |-> title])), <<>>)

\* LidarrAPI.upd_track_file
upd_track_file ==
    /\ pc = "idle"
    /\ \E data \in JsonData :
        /\ Begin("lidarr", "upd_track_file", [data |-> data])
        /\ Single(Put_("trackfile", ver_uri("lidarr"), None, data), <<>>)

\* LidarrAPI.upd_metadata_profile
upd_metadata_profile ==
    /\ pc = "idle"
    /\ \E data \in JsonData :
        /\ Begin("lidarr", "upd_metadata_profile", [data |-> data])
        /\ Single(Put_("metadataprofile", ver_uri("lidarr"), None, data), <<>>)

\* LidarrAPI.get_metadata_provider
get_metadata_provider ==
    /\ pc = "idle"
    /\ Begin("lidarr", "get_metadata_provider", <<>>)
    /\ Single(Get("config/metadataProvider", ver_uri("lidarr"), None), <<>>)

\* LidarrAPI.upd_metadata_provider
upd_metadata_provider ==
    /\ pc = "idle"
    /\ \E data \in JsonData :
        /\ Begin("lidarr", "upd_metadata_provider", [data |-> data])
        /\ Single(Put_("config/metadataProvider", ver_uri("lidarr"), None, data), <<>>)

\* params[key] = value under "if value:"
PutIf(p, k, v) == IF Truthy(v) THEN Put(p, k, v) ELSE p

\* LidarrAPI.get_queue_details
Lidarr_get_queue_details ==
    /\ pc = "idle"
    /\ \E artistId \in OptInt, albumIds \in {None} \cup IdLists,
          include_artist \in OptBool, include_album \in OptBool :
        LET a == [artistId |-> artistId, albumIds |-> albumIds,
                  include_artist |-> include_artist, include_album |-> include_album]
            p == PutIf(PutIf(PutIf(PutIf(EmptyDict, "includeArtist", include_artist),
                                   "includeAlbum", include_album),
                             "artistId", artistId),
                       "albumIds", albumIds)
        IN  /\ Begin("lidarr", "get_queue_details", a)
            /\ Single(Get("queue/details", ver_uri("lidarr"), DictV(p)), <<>>)

\* LidarrAPI.get_release
get_release ==
    /\ pc = "idle"
    /\ \E artistId \in OptInt, albumId \in OptInt :
        /\ Begin("lidarr", "get_release", [artistId |-> artistId, albumId |-> albumId])
        /\ Single(Get("release", ver_uri("lidarr"),
                      DictV(PutIf(PutIf(EmptyDict, "artistId", artistId), "albumId", albumId))),
                  <<>>)

\* LidarrAPI.get_rename
get_rename ==
    /\ pc = "idle"
    /\ \E artistId \in IntVals, albumId \in OptInt :
        /\ Begin("lidarr", "get_rename", [artistId |-> artistId, albumId |-> albumId])
        /\ Single(Get("rename", ver_uri("lidarr"),
                      DictV(PutIf([artistId |-> artistId], "albumId", albumId))),
                  <<>>)

\* LidarrAPI.get_manual_import
get_manual_import ==
    /\ pc = "idle"
    /\ \E folder \in {StrV("/incoming")}, downloadId \in {None, StrV(""), StrV("dl")},
          artistId \in OptInt, filterExistingFiles \in OptBool,
          replaceExistingFiles \in OptBool :
        LET a == [folder |-> folder, downloadId |-> downloadId, artistId |-> artistId,
                  filterExistingFiles |-> filterExistingFiles,
                  replaceExistingFiles |-> replaceExistingFiles]
            p == PutIf(PutIf(PutIf(PutIf([folder |-> folder], "downloadId", downloadId),
                                   "artistId", artistId),
                             "filterExistingFiles", filterExistingFiles),
                       "replaceExistingFiles", replaceExistingFiles)
        IN  /\ Begin("lidarr", "get_manual_import", a)
            /\ Single(Get("manualimport", ver_uri("lidarr"), DictV(p)), <<>>)

\* LidarrAPI.upd_manual_import
upd_manual_import ==
    /\ pc = "idle"
    /\ \E data \in JsonData :
        /\ Begin("lidarr", "upd_manual_import", [data |-> data])
        /\ Single(Put_("manualimport", ver_uri("lidarr"), None, data), <<>>)

\* LidarrAPI.get_retag
get_retag ==
    /\ pc = "idle"
    /\ \E artistId \in OptInt, albumId \in OptInt :
        /\ Begin("lidarr", "get_retag", [artistId |-> artistId, albumId |-> albumId])
        /\ Single(Get("retag", ver_uri("lidarr"),
                      DictV(PutIf(PutIf(EmptyDict, "artistId", artistId), "albumId", albumId))),
                  <<>>)

----------------------------------------------------------------------------
(* RadarrAPI: the remaining endpoints *)

\* RadarrAPI.add_root_folder
Radarr_add_root_folder ==
    /\ pc = "idle"
    /\ \E directory \in {StrV("/defaults")} :
        /\ Begin("radarr", "add_root_folder", [directory |-> directory])
        /\ Single(Post("rootfolder", ver_uri("radarr"), DictV([path |-> directory])), <<>>)

\* RadarrAPI.import_movies
import_movies ==
    /\ pc = "idle"
    /\ \E data \in JsonLists :
        /\ Begin("radarr", "import_movies", [data |-> data])
        /\ Single(Post("movie/import", ver_uri("radarr"), data), <<>>)

\* RadarrAPI.get_movie_files_by_movie_id
get_movie_files_by_movie_id ==
    /\ pc = "idle"
    /\ \E id_ \in IntVals :
        /\ Begin("radarr", "get_movie_files_by_movie_id", [id_ |-> id_])
        /\ Single(Get("moviefile", ver_uri("radarr"), DictV([movieId |-> id_])), <<>>)

\* RadarrAPI.get_movie_history
get_movie_history ==
    /\ pc = "idle"
    /\ \E id_ \in IntVals, event_type \in {None, StrV("grabbed")} :
        /\ Begin("radarr", "get_movie_history", [id_ |-> id_, event_type |-> event_type])
        /\ Single(Get("history/movie", ver_uri("radarr"), DictV(PutIf([movieId |-> id_], "eventType", event_type))), <<>>)

\* RadarrAPI.get_blocklist_by_movie_id
get_blocklist_by_movie_id ==
    /\ pc = "idle"
    /\ \E id_ \in IntVals :
        /\ Begin("radarr", "get_blocklist_by_movie_id", [id_ |-> id_])
        /\ Single(Get("blocklist/movie", ver_uri("radarr"), DictV([movieId |-> id_])), <<>>)

\* RadarrAPI.get_queue_details
Radarr_get_queue_details ==
    /\ pc = "idle"
    /\ \E id_ \in OptInt, include_movie \in OptBool :
        LET p1 == PutIf(EmptyDict, "movieId", id_)
            p2 == IF ~IsNone(include_movie) THEN Put(p1, "includeMovie", include_movie) ELSE p1
        IN  /\ Begin("radarr", "get_queue_details", [id_ |-> id_, include_movie |-> include_movie])
            /\ Single(Get("queue/details", ver_uri("radarr"), DictV(p2)), <<>>)

\* RadarrAPI.get_queue_status
get_queue_status ==
    /\ pc = "idle"
    /\ Begin("radarr", "get_queue_status", <<>>)
    /\ Single(Get("queue/status", ver_uri("radarr"), None), <<>>)

\* RadarrAPI.del_queue_bulk
del_queue_bulk ==
    /\ pc = "idle"
    /\ \E id_ \in IdLists, remove_from_client \in OptBool, blocklist \in OptBool :
        /\ Begin("radarr", "del_queue_bulk", [id_ |-> id_, remove_from_client |-> remove_from_client, blocklist |-> blocklist])
        /\ Single(Delete("queue/bulk", ver_uri("radarr"), DictV([removeFromClient |-> remove_from_client, blocklist |-> blocklist]), DictV([ids |-> id_])), <<>>)

\* RadarrAPI.force_grab_queue_item
force_grab_queue_item ==
    /\ pc = "idle"
    /\ \E id_ \in IntVals :
        /\ Begin("radarr", "force_grab_queue_item", [id_ |-> id_])
        /\ Single(Post("queue/grab/" \o Fmt(id_), ver_uri("radarr"), None), <<>>)

\* RadarrAPI.upd_indexer
upd_indexer ==
    /\ pc = "idle"
    /\ \E id_ \in IntVals, data \in JsonData :
        /\ Begin("radarr", "upd_indexer", [id_ |-> id_, data |-> data])
        /\ Single(Put_("indexer/" \o Fmt(id_), ver_uri("radarr"), None, data), <<>>)

\* RadarrAPI.del_indexer
del_indexer ==
    /\ pc = "idle"
    /\ \E id_ \in IntVals :
        /\ Begin("radarr", "del_indexer", [id_ |-> id_])
        /\ Single(Delete("indexer/" \o Fmt(id_), ver_uri("radarr"), None, None), <<>>)

\* RadarrAPI.get_custom_filter
get_custom_filter ==
    /\ pc = "idle"
    /\ Begin("radarr", "get_custom_filter", <<>>)
    /\ Single(Get("customfilter", ver_uri("radarr"), None), <<>>)

----------------------------------------------------------------------------
(* Specification *)

\* LidarrAPI.__init__ / RadarrAPI.__init__
Init ==
    /\ config = [api \in APIs |->
                    [host_url |-> "https://host", api_key |-> "key",
                     ver_uri |-> IF api = "lidarr" THEN "/v1" ELSE "/v3"]]
    /\ call = [api |-> "none", method |-> "none", args |-> <<>>]
    /\ pc = "idle"
    /\ locals = NoLocals
    /\ reqs = <<>>
    /\ resps = <<>>
    /\ warns = <<>>
    /\ outcome = "none"
    /\ result = None

\* the caller takes the result or the exception; the client is ready for
\* the next invocation and keeps nothing of the last one but its configuration
Return ==
    /\ pc = "done"
    /\ pc' = "idle"
    /\ call' = [api |-> "none", method |-> "none", args |-> <<>>]
    /\ locals' = NoLocals
    /\ reqs' = <<>>
    /\ resps' = <<>>
    /\ warns' = <<>>
    /\ outcome' = "none"
    /\ result' = None
    /\ UNCHANGED config

Next ==
    \/ Return
    \/ lookup
    \/ lookup_artist
    \/ lookup_album
    \/ upd_artist
    \/ delete_artist
    \/ upd_album
    \/ delete_album
    \/ get_parse
    \/ upd_track_file
    \/ upd_metadata_profile
    \/ get_metadata_provider
    \/ upd_metadata_provider
    \/ Lidarr_get_queue_details
    \/ get_release
    \/ get_rename
    \/ get_manual_import
    \/ upd_manual_import
    \/ get_retag
    \/ Radarr_add_root_folder
    \/ import_movies
    \/ get_movie_files_by_movie_id
    \/ get_movie_history
    \/ get_blocklist_by_movie_id
    \/ Radarr_get_queue_details
    \/ get_queue_status
    \/ del_queue_bulk
    \/ force_grab_queue_item
    \/ upd_indexer
    \/ del_indexer
    \/ get_custom_filter
    \/ get_movie_by_movie_id
    \/ lookup_movie_by_tmdb_id
    \/ lookup_movie_by_imdb_id
    \/ upd_movies
    \/ del_movies
    \/ get_movie
    \/ lookup_movie
    \/ upd_movie
    \/ get_movie_file
    \/ get_indexer
    \/ Radarr_post_command
    \/ get_artist
    \/ get_album
    \/ get_track_file
    \/ get_metadata_profile
    \/ Lidarr_post_command
    \/ Lidarr_add_root_folder
    \/ get_tracks
    \/ delete_track_file
    \/ get_wanted
    \/ Lidarr_get_queue
    \/ Radarr_get_queue
    \/ del_movie_file
    \/ del_movie
    \/ add_artist
    \/ add_album
    \/ json_quality
    \/ json_metadata
    \/ json_lookup
    \/ add_post
    \/ add_movie
    \/ movie_json_call
    \/ movie_json
    \/ add_movie_post

Spec == Init /\ [][Next]_vars

----------------------------------------------------------------------------
(* Properties *)

Done == pc = "done"
LidarrAdds == {"add_artist", "add_album"}
AddMethods == LidarrAdds \cup {"add_movie"}
Paginated == {"get_queue", "get_wanted"}
LookupPaths == {"artist/lookup", "album/lookup", "movie/lookup"}
CreatePath == [add_artist |-> "artist", add_album |-> "album", add_movie |-> "movie"]

\* indices of the POSTs of the invocation
PostIdx == {i \in DOMAIN reqs : reqs[i].verb = "POST"}
\* indices of the requests to path
ReqIdx(path) == {i \in DOMAIN reqs : reqs[i].path = path}
\* the request was answered with an empty JSON list
EmptyList(i) == resps[i].ok /\ resps[i].json = ListV(<<>>)
\* the method issued exactly one request (and received its response)
OneRequest == Len(reqs) = 1 /\ outcome \in {"returned", "RequestError"}
HasKey(v, k) == v.t = "dict" /\ k \in DOMAIN v.d

C2_EmptyLookupRecordNotFound ==
    call.method \in AddMethods =>
        \A i \in DOMAIN reqs :
            (reqs[i].path \in LookupPaths /\ EmptyList(i)) =>
                /\ outcome = "PyarrRecordNotFound"
                /\ PostIdx = {}

\* C3: a paginated endpoint called with exactly one of sort_key, sort_dir
\* supplied ends with PyarrMissingArgument and issues no request.
C3_SortPairRequired ==
    (call.method \in Paginated /\ Done
        /\ IsNone(call.args.sort_key) # IsNone(call.args.sort_dir)) =>
            /\ outcome = "PyarrMissingArgument"
            /\ reqs = <<>>

\* C4: get_tracks without any of its four selectors ends with
\* PyarrMissingArgument and issues no request.
C4_GetTracksNeedsSelector ==
    (call.method = "get_tracks" /\ Done
        /\ IsNone(call.args.artistId) /\ IsNone(call.args.albumId)
        /\ IsNone(call.args.albumReleaseId) /\ IsNone(call.args.trackIds)) =>
            /\ outcome = "PyarrMissingArgument"
            /\ reqs = <<>>

C4_Witness ==
    /\ call.method = "get_tracks"
    /\ Done
    /\ \A k \in DOMAIN call.args : IsNone(call.args[k])
    /\ outcome = "PyarrMissingArgument"

\* the selectors of get_tracks that the caller supplied
Supplied == {k \in DOMAIN call.args : ~IsNone(call.args[k])}

\* C5 as stated: get_tracks with exactly one selector supplied issues one
\* GET whose query parameters are exactly that selector.
C5_OneSelectorOneParam ==
    (call.method = "get_tracks" /\ Done /\ Cardinality(Supplied) = 1) =>
        /\ OneRequest
        /\ reqs[1].verb = "GET"
        /\ reqs[1].params.t = "dict"
        /\ DOMAIN reqs[1].params.d = Supplied
        /\ \A k \in Supplied : reqs[1].params.d[k] = call.args[k]

\* C5 amended: with exactly one selector supplied get_tracks raises no error
\* and issues one GET; when the selector is artistId, albumId, albumReleaseId
\* or a list of trackIds the GET goes to track and its query is exactly that
\* selector; when it is a single integer trackIds the GET goes to
\* track/{trackIds} and the query is empty.
C5_OneSelectorDispatch ==
    (call.method = "get_tracks" /\ Done /\ Cardinality(Supplied) = 1) =>
        /\ OneRequest
        /\ reqs[1].verb = "GET"
        /\ reqs[1].params.t = "dict"
        /\ IF call.args.trackIds.t = "int"
           THEN /\ reqs[1].path = "track/" \o ToString(call.args.trackIds.i)
                /\ DOMAIN reqs[1].params.d = {}
           ELSE /\ reqs[1].path = "track"
                /\ DOMAIN reqs[1].params.d = Supplied
                /\ \A k \in Supplied : reqs[1].params.d[k] = call.args[k]

C5_Witness ==
    /\ call.method = "get_tracks"
    /\ Done
    /\ Supplied = {"artistId"}
    /\ call.args.artistId = IntV(0)
    /\ Len(reqs) = 1

\* the delete operations that accept an int or a list: the id argument, the
\* single-item resource, the bulk path and the body key of each
DeleteMethods == {"delete_track_file", "del_movie_file", "del_movie"}
DeleteId == IF call.method = "delete_track_file" THEN call.args.ids_ ELSE call.args.id_
DeleteResource ==
    [delete_track_file |-> "trackfile", del_movie_file |-> "moviefile", del_movie |-> "movie"]
DeleteBulkPath ==
    [delete_track_file |-> "trackfile/bulk", del_movie_file |-> "moviefile/bulk",
     del_movie |-> "movie/editor"]
DeleteBodyKey ==
    [delete_track_file |-> "trackFileIds", del_movie_file |-> "movieFileIds",
     del_movie |-> "movieIds"]

\* C6: a delete by a list of ids issues one DELETE to the bulk path with the
\* ids in the body; a delete by a single id issues one DELETE to
\* resource/{id} without a body.
C6_DeleteDispatch ==
    (call.method \in DeleteMethods /\ Done) =>
        /\ OneRequest
        /\ reqs[1].verb = "DELETE"
        /\ IF DeleteId.t = "list"
           THEN /\ reqs[1].path = DeleteBulkPath[call.method]
                /\ HasKey(reqs[1].data, DeleteBodyKey[call.method])
                /\ reqs[1].data.d[DeleteBodyKey[call.method]] = DeleteId
           ELSE /\ reqs[1].path = DeleteResource[call.method] \o "/" \o ToString(DeleteId.i)
                /\ reqs[1].data = None

C6_Witness ==
    /\ call.method = "del_movie_file"
    /\ Done
    /\ DeleteId.t = "list"
    /\ Len(DeleteId.l) = 2
    /\ reqs[1].path = "moviefile/bulk"

\* C7: add_root_folder issues exactly one request, POST rootfolder under /v1,
\* whose body has exactly the five keys with the caller's values (defaultTags
\* the empty list when omitted), and returns the response of that POST.
C7_AddRootFolder ==
    (call.api = "lidarr" /\ call.method = "add_root_folder" /\ Done) =>
        /\ OneRequest
        /\ reqs[1].verb = "POST"
        /\ reqs[1].path = "rootfolder"
        /\ reqs[1].ver = "/v1"
        /\ reqs[1].data.t = "dict"
        /\ DOMAIN reqs[1].data.d =
              {"name", "path", "defaultQualityProfileId", "defaultMetadataProfileId",
               "defaultTags"}
        /\ reqs[1].data.d.name = call.args.name
        /\ reqs[1].data.d.path = call.args.path
        /\ reqs[1].data.d.defaultQualityProfileId = call.args.qualityProfile
        /\ reqs[1].data.d.defaultMetadataProfileId = call.args.metadataProfile
        /\ reqs[1].data.d.defaultTags =
              (IF IsNone(call.args.defaultTags) THEN ListV(<<>>) ELSE call.args.defaultTags)
        /\ outcome = "returned" => result = resps[1].json

C7_Witness ==
    /\ call.api = "lidarr"
    /\ call.method = "add_root_folder"
    /\ Done
    /\ outcome = "returned"
    /\ IsNone(call.args.defaultTags)
    /\ call.args.qualityProfile # call.args.metadataProfile

\* the query of the invocation's request carries key k with value v exactly
\* when the argument v was supplied
Verbatim(k, v) ==
    IF IsNone(v)
    THEN ~HasKey(reqs[1].params, k)
    ELSE HasKey(reqs[1].params, k) /\ reqs[1].params.d[k] = v

\* C8: on the paginated endpoints the query carries page / pageSize with the
\* caller's value whenever the argument is not None (0 included) and has no
\* such key when the argument is None.
C8_PageVerbatim ==
    (call.method \in Paginated /\ Done /\ Len(reqs) = 1) =>
        /\ Verbatim("page", call.args.page)
        /\ Verbatim("pageSize", call.args.page_size)

\* indices of the profile-list requests answered with an empty list
EmptyProfileIdx ==
    {i \in ReqIdx("qualityprofile") \cup ReqIdx("metadataprofile") : EmptyList(i)}

\* C9: in add_artist and add_album, when a profile list fetched for an omitted
\* profile id is empty, the call ends with PyarrMissingProfile and no POST is
\* issued.
C9_MissingProfile ==
    (call.method \in LidarrAdds /\ EmptyProfileIdx # {}) =>
        /\ Done
        /\ outcome = "PyarrMissingProfile"
        /\ PostIdx = {}
        /\ EmptyProfileIdx = {Len(reqs)}

C9_Witness ==
    /\ call.method = "add_album"
    /\ IsNone(call.args.quality_profile_id)
    /\ IsNone(call.args.metadata_profile_id)
    /\ ReqIdx("qualityprofile") = {1}
    /\ EmptyProfileIdx = {2}
    /\ outcome = "PyarrMissingProfile"

\* the POSTed record's key holds the caller's value, with no request to the
\* profile list at path, or else the id of the first fetched profile
ProfileResolved(i, key, arg, path) ==
    /\ HasKey(reqs[i].data, key)
    /\ IF ~IsNone(arg)
       THEN /\ reqs[i].data.d[key] = arg
            /\ ReqIdx(path) = {}
       ELSE /\ Cardinality(ReqIdx(path)) = 1
            /\ \A j \in ReqIdx(path) :
                  /\ j < i
                  /\ reqs[i].data.d[key] = resps[j].json.l[1].d.id

\* C10: the record add_artist / add_album POSTs carries the caller's
\* qualityProfileId and metadataProfileId when supplied (0 included), without
\* a profile-list request, and the id of the first element of the fetched
\* profile list when omitted.
C10_ProfileIds ==
    call.method \in LidarrAdds =>
        \A i \in PostIdx :
            /\ ProfileResolved(i, "qualityProfileId", call.args.quality_profile_id,
                               "qualityprofile")
            /\ ProfileResolved(i, "metadataProfileId", call.args.metadata_profile_id,
                               "metadataprofile")

C10_Witness ==
    /\ call.method = "add_artist"
    /\ Done
    /\ outcome = "returned"
    /\ call.args.quality_profile_id = IntV(0)
    /\ IsNone(call.args.metadata_profile_id)
    /\ \E j \in ReqIdx("metadataprofile") :
          /\ Len(resps[j].json.l) = 2
          /\ resps[j].json.l[1] # resps[j].json.l[2]
    /\ PostIdx # {}

\* the request carries no query parameter
NoQuery(i) ==
    \/ reqs[i].params = None
    \/ reqs[i].params.t = "dict" /\ DOMAIN reqs[i].params.d = {}
    \/ reqs[i].params.t = "pairs" /\ reqs[i].params.p = <<>>

Aliases ==
    {"get_movie_by_movie_id", "upd_movies", "del_movies",
     "lookup_movie_by_tmdb_id", "lookup_movie_by_imdb_id"}

\* C11: a call of a deprecated alias emits exactly one deprecation notice,
\* emits it before the request is issued, then issues the request and returns
\* its result.
C11_DeprecatedAlias ==
    (call.method \in Aliases /\ Done) =>
        /\ warns = <<0>>
        /\ OneRequest
        /\ resps[1].ok => (outcome = "returned" /\ result = resps[1].json)

C11_Witness ==
    /\ call.method = "upd_movies"
    /\ Done
    /\ outcome = "returned"
    /\ warns = <<0>>
    /\ reqs[1].verb = "PUT"

\* C12: get_track_file without any of artistId, albumId, trackFileIds,
\* unmapped ends with PyarrMissingArgument and issues no request; with at
\* least one supplied (unmapped=False and id 0 included) it raises no error
\* and issues exactly one GET.
C12_GetTrackFileSelector ==
    (call.method = "get_track_file" /\ Done) =>
        IF \A k \in DOMAIN call.args : IsNone(call.args[k])
        THEN outcome = "PyarrMissingArgument" /\ reqs = <<>>
        ELSE OneRequest /\ reqs[1].verb = "GET"

C12_Witness ==
    /\ call.method = "get_track_file"
    /\ Done
    /\ {k \in DOMAIN call.args : ~IsNone(call.args[k])} = {"unmapped"}
    /\ call.args.unmapped = BoolV(FALSE)
    /\ Len(reqs) = 1

\* the read endpoints that dispatch on the shape of an identifier
ShapeMethods == {"get_album", "get_track_file", "get_movie_file"}
ShapeId ==
    CASE call.method = "get_album" -> call.args.albumIds
      [] call.method = "get_track_file" -> call.args.trackFileIds
      [] call.method = "get_movie_file" -> call.args.id_
ShapeResource ==
    [get_album |-> "album", get_track_file |-> "trackfile", get_movie_file |-> "moviefile"]
ShapeKey ==
    [get_album |-> "albumids", get_track_file |-> "trackFileIds",
     get_movie_file |-> "movieFileIds"]

\* the ids the query passes under key, in order
QueryIds(params, key) ==
    IF params.t = "pairs"
    THEN [k \in {j \in DOMAIN params.p : params.p[j][1] = key} |-> params.p[k][2]]
    ELSE IF HasKey(params, key) THEN params.d[key].l ELSE <<"absent">>

\* C13: on get_album, get_track_file and get_movie_file a single integer id
\* issues a GET to resource/{id}; a list of ids issues a GET to the bare
\* collection path with every id of the list as a query parameter, in order.
C13_ReadDispatch ==
    (call.method \in ShapeMethods /\ Done /\ ShapeId.t \in {"int", "list"}) =>
        /\ OneRequest
        /\ reqs[1].verb = "GET"
        /\ IF ShapeId.t = "int"
           THEN reqs[1].path = ShapeResource[call.method] \o "/" \o ToString(ShapeId.i)
           ELSE /\ reqs[1].path = ShapeResource[call.method]
                /\ QueryIds(reqs[1].params, ShapeKey[call.method]) = ShapeId.l

C13_Witness ==
    /\ call.method = "get_movie_file"
    /\ Done
    /\ ShapeId = ListV(<<1, 0>>)
    /\ reqs[1].path = "moviefile"

\* C14 as stated: every public method invocation that returns has issued
\* exactly one HTTP call.
C14_OneCallPerInvocation ==
    (Done /\ outcome = "returned") => Len(reqs) = 1

\* the profile ids the caller of add_artist / add_album left out
OmittedProfiles ==
    {k \in {"quality_profile_id", "metadata_profile_id"} : IsNone(call.args[k])}

\* C14 amended: every public method invocation that returns has issued
\* exactly one HTTP call, except the add operations: add_movie returns after
\* exactly two calls (lookup, POST) and add_artist / add_album after the
\* lookup, the POST and one profile-list GET per omitted profile id (two to
\* four calls).
C14_CallsPerInvocation ==
    (Done /\ outcome = "returned") =>
        Len(reqs) = (IF call.method \in LidarrAdds THEN 2 + Cardinality(OmittedProfiles)
                     ELSE IF call.method = "add_movie" THEN 2
                     ELSE 1)

C14_Witness ==
    /\ call.method = "add_album"
    /\ Done
    /\ outcome = "returned"
    /\ Len(reqs) = 4

\* C15: a request that fails with a transport error ends the invocation with
\* that error: it is the last request of the invocation, no POST follows a
\* failed profile fetch or lookup, and no request is issued twice.
C15_FailOnce ==
    /\ \A i \in DOMAIN resps :
          ~resps[i].ok =>
              /\ Done
              /\ outcome = "RequestError"
              /\ i = Len(reqs)
              /\ PostIdx \subseteq {i}
    /\ \A i, j \in DOMAIN reqs : reqs[i] = reqs[j] => i = j

C15_Witness ==
    /\ call.method = "add_artist"
    /\ Done
    /\ Len(reqs) = 3
    /\ resps[1].ok
    /\ resps[2].ok
    /\ ~resps[3].ok
    /\ reqs[3].path = "artist/lookup"

\* C16: RadarrAPI.post_command issues one POST to command whose body is the
\* kwargs plus the key name, and the body's name is the name argument;
\* LidarrAPI.post_command POSTs a body with the single key name.
C16_PostCommand ==
    (call.method = "post_command" /\ Done /\ outcome # "TypeError") =>
        /\ OneRequest
        /\ reqs[1].verb = "POST"
        /\ reqs[1].path = "command"
        /\ reqs[1].data.t = "dict"
        /\ reqs[1].data.d.name = call.args.name
        /\ IF call.api = "radarr"
           THEN /\ DOMAIN reqs[1].data.d = DOMAIN call.args.kwargs \cup {"name"}
                /\ \A k \in DOMAIN call.args.kwargs \ {"name"} :
                      reqs[1].data.d[k] = call.args.kwargs[k]
           ELSE DOMAIN reqs[1].data.d = {"name"}

C16_Witness ==
    /\ call.api = "radarr"
    /\ call.method = "post_command"
    /\ Done
    /\ DOMAIN call.args.kwargs = {"movieIds", "clientid"}
    /\ Len(reqs) = 1

\* C17: with a non-empty lookup result the record built for the POST carries
\* the caller's arguments: rootFolderPath = root_dir, qualityProfileId = the
\* supplied quality_profile_id, monitored = monitored, and addOptions holds
\* the caller's search flag (and, for Lidarr, the monitor mode).
C17_CallerArguments ==
    call.method \in AddMethods =>
        \A i \in PostIdx :
            /\ reqs[i].data.d.rootFolderPath = call.args.root_dir
            /\ reqs[i].data.d.monitored = call.args.monitored
            /\ ~IsNone(call.args.quality_profile_id) =>
                  reqs[i].data.d.qualityProfileId = call.args.quality_profile_id
            /\ reqs[i].data.d.addOptions =
                  (IF call.method = "add_movie"
                   THEN DictV([searchForMovie |-> call.args.search_for_movie])
                   ELSE DictV([monitor |-> call.args.artist_monitor,
                               searchForMissingAlbums |->
                                   call.args.artist_search_for_missing_albums]))

C17_Witness ==
    /\ call.method = "add_movie"
    /\ Done
    /\ outcome = "returned"
    /\ call.args.monitored = BoolV(FALSE)
    /\ call.args.search_for_movie = BoolV(FALSE)
    /\ PostIdx = {2}

\* C18: get_artist without an argument issues GET artist with no query
\* parameter; with an integer id (0 included) GET artist/{id} with no query
\* parameter; with a string GET artist with the single parameter mbId.
C18_GetArtist ==
    (call.method = "get_artist" /\ Done) =>
        /\ OneRequest
        /\ reqs[1].verb = "GET"
        /\ CASE call.args.id_.t = "None" ->
                  reqs[1].path = "artist" /\ NoQuery(1)
             [] call.args.id_.t = "int" ->
                  reqs[1].path = "artist/" \o ToString(call.args.id_.i) /\ NoQuery(1)
             [] call.args.id_.t = "str" ->
                  reqs[1].path = "artist" /\ reqs[1].params = DictV([mbId |-> call.args.id_])

C18_Witness ==
    /\ call.method = "get_artist"
    /\ Done
    /\ call.args.id_ = IntV(0)
    /\ reqs[1].path = "artist/0"

\* C19: get_movie without an id issues GET movie; with an id and tmdb false
\* GET movie/{id} with no query parameter; with tmdb true GET movie (never
\* movie/{id}) with the query parameter tmdbid equal to the id.
C19_GetMovie ==
    (call.method = "get_movie" /\ Done) =>
        /\ OneRequest
        /\ reqs[1].verb = "GET"
        /\ IF call.args.tmdb.b
           THEN /\ reqs[1].path = "movie"
                /\ reqs[1].params = DictV([tmdbid |-> call.args.id_])
           ELSE IF IsNone(call.args.id_)
           THEN reqs[1].path = "movie" /\ NoQuery(1)
           ELSE reqs[1].path = "movie/" \o ToString(call.args.id_.i) /\ NoQuery(1)

C19_Witness ==
    /\ call.method = "get_movie"
    /\ Done
    /\ call.args.tmdb = BoolV(TRUE)
    /\ call.args.id_ = IntV(1)
    /\ reqs[1].path = "movie"

OptionalIdResource == [get_indexer |-> "indexer", get_metadata_profile |-> "metadataprofile"]

\* C20: get_indexer and get_metadata_profile issue a GET to resource/{id}
\* whenever an id is supplied (0 included) and to the bare collection path
\* only when no id is supplied.
C20_OptionalId ==
    (call.method \in DOMAIN OptionalIdResource /\ Done) =>
        /\ OneRequest
        /\ reqs[1].path =
              (IF IsNone(call.args.id_) THEN OptionalIdResource[call.method]
               ELSE OptionalIdResource[call.method] \o "/" \o ToString(call.args.id_.i))

\* C21: RadarrAPI.get_queue sends includeUnknownMovieItems with the caller's
\* value whenever include_unknown_movie_items is supplied (True or False) and
\* omits it only when the argument is None; a call without arguments issues
\* GET queue with an empty query.
C21_IncludeUnknown ==
    (call.api = "radarr" /\ call.method = "get_queue" /\ Done) =>
        /\ reqs # <<>> =>
              /\ HasKey(reqs[1].params, "includeUnknownMovieItems")
                    <=> ~IsNone(call.args.include_unknown_movie_items)
              /\ HasKey(reqs[1].params, "includeUnknownMovieItems") =>
                    reqs[1].params.d.includeUnknownMovieItems =
                        call.args.include_unknown_movie_items
        /\ (\A k \in DOMAIN call.args : IsNone(call.args[k])) =>
              /\ OneRequest
              /\ reqs[1].verb = "GET"
              /\ reqs[1].path = "queue"
              /\ NoQuery(1)

C21_Witness ==
    /\ call.api = "radarr"
    /\ call.method = "get_queue"
    /\ Done
    /\ call.args.include_unknown_movie_items = BoolV(FALSE)
    /\ HasKey(reqs[1].params, "includeUnknownMovieItems")

\* C22: no method changes the connection configuration: in every state the
\* host URL, API key and version prefix of both clients are the values given
\* at construction (/v1 for LidarrAPI, /v3 for RadarrAPI), and every request
\* of a client uses that client's prefix.
C22_ConfigImmutable ==
    /\ config = [api \in APIs |->
                    [host_url |-> "https://host", api_key |-> "key",
                     ver_uri |-> IF api = "lidarr" THEN "/v1" ELSE "/v3"]]
    /\ \A i \in DOMAIN reqs : reqs[i].ver = config[call.api].ver_uri

C22_Witness ==
    /\ call.api = "lidarr"
    /\ Done
    /\ outcome = "RequestError"
    /\ Len(reqs) = 2
    /\ reqs[2].ver = "/v1"

\* indices of the lookup requests of the invocation
LookupIdx == {i \in DOMAIN reqs : reqs[i].path \in LookupPaths}
ProfilePaths == {"qualityprofile", "metadataprofile"}

\* C23 as stated: in every add operation the lookup is the first request of
\* the invocation, so no profile-list request precedes it and the call never
\* ends with the missing-profile error before a lookup was made.
C23_LookupFirst ==
    call.method \in AddMethods =>
        /\ \A i \in LookupIdx : i = 1
        /\ outcome = "PyarrMissingProfile" => LookupIdx # {}

\* C23 amended: in add_movie the lookup is the first request; in add_artist
\* and add_album the profile-list requests for the omitted profile ids come
\* first (quality before metadata), each answered with a non-empty list
\* before the lookup is issued, and the lookup precedes the POST; a call that
\* ends with the missing-profile error has issued no lookup.
C23_ProfilesThenLookup ==
    call.method \in AddMethods =>
        /\ \A i \in LookupIdx :
              /\ i = 1 + (IF call.method \in LidarrAdds
                          THEN Cardinality(OmittedProfiles) ELSE 0)
              /\ \A j \in 1..(i - 1) :
                    /\ reqs[j].path \in ProfilePaths
                    /\ resps[j].ok
                    /\ Len(resps[j].json.l) > 0
        /\ \A i \in ReqIdx("qualityprofile"), j \in ReqIdx("metadataprofile") : i < j
        /\ \A i \in PostIdx : \E j \in LookupIdx : j < i
        /\ outcome = "PyarrMissingProfile" => LookupIdx = {}

C23_Witness ==
    /\ call.method = "add_album"
    /\ Done
    /\ LookupIdx = {3}
    /\ reqs[1].path = "qualityprofile"
    /\ reqs[2].path = "metadataprofile"

\* the query a request puts on the wire: no parameters and an empty
\* parameter dictionary are the same empty query
Query(params) ==
    IF params = None THEN EmptyDict
    ELSE IF params.t = "dict" THEN params.d
    ELSE params.p

SameRequest(r, q) ==
    /\ r.verb = q.verb
    /\ r.path = q.path
    /\ r.ver = q.ver
    /\ Query(r.params) = Query(q.params)
    /\ r.data = q.data

\* the request of the canonical method called with the alias's input
CanonicalReq ==
    CASE call.method = "get_movie_by_movie_id" ->
            get_movie_req([id_ |-> call.args.id_, tmdb |-> BoolV(FALSE)], ver_uri("radarr"))
      [] call.method = "lookup_movie_by_tmdb_id" ->
            lookup_movie_req(StrV("tmdb:" \o Fmt(call.args.id_)), ver_uri("radarr"))
      [] call.method = "lookup_movie_by_imdb_id" ->
            lookup_movie_req(StrV("imdb:" \o Fmt(call.args.id_)), ver_uri("radarr"))
      [] call.method = "upd_movies" ->
            upd_movie_req([data |-> call.args.data, move_files |-> None], ver_uri("radarr"))

\* C24: each deprecated alias issues the same HTTP request (method, path,
\* query, body) as the canonical method called with the same input.
C24_AliasSameRequest ==
    (call.method \in Aliases \ {"del_movies"} /\ Done) =>
        /\ Len(reqs) = 1
        /\ SameRequest(reqs[1], CanonicalReq)

\* C25: RadarrAPI.upd_movie issues one PUT whose body is the caller's data
\* unchanged, to movie/editor when data is a list and to movie when it is a
\* single record; the query carries moveFiles with the caller's value when
\* move_files is supplied (True or False) and no moveFiles key when it is None.
C25_UpdMovie ==
    (call.method = "upd_movie" /\ Done) =>
        /\ OneRequest
        /\ reqs[1].verb = "PUT"
        /\ reqs[1].data = call.args.data
        /\ reqs[1].path = (IF call.args.data.t = "list" THEN "movie/editor" ELSE "movie")
        /\ Query(reqs[1].params) =
              (IF IsNone(call.args.move_files) THEN EmptyDict
               ELSE [moveFiles |-> call.args.move_files])

C25_Witness ==
    /\ call.method = "upd_movie"
    /\ Done
    /\ call.args.data.t = "list"
    /\ call.args.move_files = BoolV(FALSE)
    /\ reqs[1].path = "movie/editor"

DelFlags == [delete_files |-> "deleteFiles", add_exclusion |-> "addImportExclusion"]

\* the options dictionary of del_movie: a flag is present only when its
\* argument is true
DelOptions(v) ==
    /\ v.t = "dict"
    /\ \A f \in DOMAIN DelFlags :
          /\ DelFlags[f] \in DOMAIN v.d <=> call.args[f] = BoolV(TRUE)
          /\ DelFlags[f] \in DOMAIN v.d => v.d[DelFlags[f]] = StrV("True")

\* C26: RadarrAPI.del_movie carries its options on the channel that matches
\* the id shape: for a single id the flags travel as query parameters and the
\* request has no body; for a list of ids the flags and movieIds travel in the
\* body and the request has no query parameters; in both shapes a flag
\* appears only when its argument is true.
C26_DelMovieChannels ==
    (call.method = "del_movie" /\ Done) =>
        /\ OneRequest
        /\ reqs[1].verb = "DELETE"
        /\ IF call.args.id_.t = "list"
           THEN /\ reqs[1].params = None
                /\ DelOptions(reqs[1].data)
                /\ DOMAIN reqs[1].data.d \ {"deleteFiles", "addImportExclusion"} = {"movieIds"}
                /\ reqs[1].data.d.movieIds = call.args.id_
           ELSE /\ reqs[1].data = None
                /\ DelOptions(reqs[1].params)
                /\ DOMAIN reqs[1].params.d \subseteq {"deleteFiles", "addImportExclusion"}

C26_Witness ==
    /\ call.method = "del_movie"
    /\ Done
    /\ call.args.id_ = ListV(<<0, 1>>)
    /\ call.args.delete_files = BoolV(TRUE)
    /\ call.args.add_exclusion = BoolV(FALSE)
    /\ DOMAIN reqs[1].data.d = {"deleteFiles", "movieIds"}

\* C27: in every request issued by LidarrAPI.get_queue, LidarrAPI.get_wanted
\* or RadarrAPI.get_queue, for all combinations of sort_key and sort_dir
\* (empty strings included), the query contains sortKey if and only if it
\* contains sortDirection.
C27_SortPairInQuery ==
    call.method \in Paginated =>
        \A i \in DOMAIN reqs :
            HasKey(reqs[i].params, "sortKey") <=> HasKey(reqs[i].params, "sortDirection")

C27_Witness ==
    /\ call.method = "get_wanted"
    /\ Done
    /\ call.args.sort_key = StrV("title")
    /\ call.args.sort_dir = StrV("ascending")
    /\ HasKey(reqs[1].params, "sortKey")
    /\ HasKey(reqs[1].params, "sortDirection")

\* "if tmdb is not None: warn(...)" of _movie_json
MovieJsonNotice(tmdb) == ~IsNone(tmdb)

\* C28: add_movie and _movie_json agree on the deprecated tmdb argument: for
\* every value of tmdb (None, True, False) add_movie emits a deprecation
\* notice if and only if _movie_json called directly with that value emits
\* one, and one call of add_movie emits at most one notice.
C28_TmdbNoticeAgrees ==
    Done =>
        /\ call.method = "_movie_json" =>
              (warns # <<>>) = MovieJsonNotice(call.args.tmdb)
        /\ call.method = "add_movie" =>
              /\ Len(warns) <= 1
              /\ (warns # <<>>) = MovieJsonNotice(call.args.tmdb)

\* C29: in every add operation the POST to the creation endpoint is issued at
\* most once, only after every earlier request of the invocation has returned
\* successfully with a non-empty result, and it is the last request of the
\* invocation; the value the call returns is the response of that POST.
C29_PostLastOnce ==
    call.method \in AddMethods =>
        /\ Cardinality(PostIdx) <= 1
        /\ \A i \in PostIdx :
              /\ reqs[i].path = CreatePath[call.method]
              /\ i = Len(reqs)
              /\ \A j \in 1..(i - 1) : resps[j].ok /\ Len(resps[j].json.l) > 0
        /\ (Done /\ outcome = "returned") =>
              /\ PostIdx = {Len(reqs)}
              /\ result = resps[Len(reqs)].json

C29_Witness ==
    /\ call.method = "add_artist"
    /\ Done
    /\ outcome = "returned"
    /\ PostIdx = {3}
    /\ result = resps[3].json

\* C30: RadarrAPI.get_movie_file never issues an unfiltered request: for a
\* single id or a list of any length (the empty list included) the GET either
\* targets moviefile/{id} or targets moviefile with at least one movieFileIds
\* query parameter.
C30_NeverUnfiltered ==
    (call.method = "get_movie_file" /\ Done) =>
        \A i \in DOMAIN reqs :
            \/ /\ call.args.id_.t = "int"
               /\ reqs[i].path = "moviefile/" \o ToString(call.args.id_.i)
            \/ /\ reqs[i].path = "moviefile"
               /\ reqs[i].params # None
               /\ Len(QueryIds(reqs[i].params, "movieFileIds")) >= 1

====
